---- MODULE Spec2Model ----
(***************************************************************************)
(* Crop recommender (Backend/Recommender/app): the soil provider session   *)
(* of soil_service.py run by concurrent requests, the place-based          *)
(* recommendation of recommender.py, and the pure matching / scoring       *)
(* functions.                                                              *)
(*                                                                         *)
(* Conventions.  Python's None is the empty tuple and a present value v is *)
(* the one-element tuple <<v>>.  Temperatures, humidity, sand and clay are *)
(* whole numbers; pH and organic carbon are fixed-point tenths (6.5 is 65) *)
(* so that the thresholds 5.5, 6.0, 7.5, 8.5, 1.0 and 3.0 are exact.       *)
(***************************************************************************)
EXTENDS Integers, Sequences, FiniteSets, TLC

VARIABLES username, password, access_token, issued,
          pc, in401, rtok, hdr, log, result,
          api_key, call,
          ppc, pargs, pweather, presult, psoil,
          crops_json, chatbot_crops, process, reads

soilVars == <<username, password, access_token, issued,
              pc, in401, rtok, hdr, log, result>>

placeVars == <<ppc, pargs, pweather, presult, psoil>>

\* The catalog document on disk and the document whose records chatbot.py
\* holds (both by name, see DocumentOf), the server process, and the number
\* of times the document has been read.
catalogVars == <<crops_json, chatbot_crops, process, reads>>

\* Everything outside the soil session.
others == <<api_key, call, placeVars, catalogVars>>

vars == <<soilVars, others>>

\* Number of requests sharing the module-level soil_service instance.
NumRequests == 2

Procs == 1..NumRequests

None == <<>>

Some(v) == <<v>>

\* Python truthiness of an optional number / token: None, 0 and "" are falsy.
Truthy(x) == x # None /\ x[1] # 0

\* The n-th token the provider issues; `reauth` tells whether it answers the
\* login of a request that had received a 401.
Token(n, reauth) == <<n, reauth>>

\* Outcomes of the credential POST (soil_service.py 30-33).
AuthOutcomes == {"token", "no_token", "rejected", "transport_error", "bad_json"}

\* Outcomes of the soil-property GET (soil_service.py 84, 95, 97).
GetOutcomes == {"ok", "unauthorized", "http_error", "transport_error"}

CredentialsConfigured == username # "" /\ password # ""

(***************************************************************************)
(* Strings whose letter case matters are tuples of characters.             *)
(***************************************************************************)
UpperLetters == <<"A", "B", "C", "D", "E", "F", "G", "H", "I", "J", "K", "L", "M",
                  "N", "O", "P", "Q", "R", "S", "T", "U", "V", "W", "X", "Y", "Z">>

LowerLetters == <<"a", "b", "c", "d", "e", "f", "g", "h", "i", "j", "k", "l", "m",
                  "n", "o", "p", "q", "r", "s", "t", "u", "v", "w", "x", "y", "z">>

LowerChar(c) ==
    IF \E i \in DOMAIN UpperLetters : UpperLetters[i] = c
      THEN LowerLetters[CHOOSE i \in DOMAIN UpperLetters : UpperLetters[i] = c]
      ELSE c

\* str.lower()
Lower(s) == [i \in DOMAIN s |-> LowerChar(s[i])]

\* str.lower() forgotten
LowerIdentity(s) == s

\* str.lower() as applied to the request's soil type (recommender.py 21)
LowerSoilType(s) == Lower(s)

Loamy == <<"l", "o", "a", "m", "y">>

Sandy == <<"s", "a", "n", "d", "y">>

Clay == <<"c", "l", "a", "y">>

Summer == <<"s", "u", "m", "m", "e", "r">>

Winter == <<"w", "i", "n", "t", "e", "r">>

Spring == <<"s", "p", "r", "i", "n", "g">>

Autumn == <<"a", "u", "t", "u", "m", "n">>

(***************************************************************************)
(* The crop catalog (crops.json read by load_crops into Crop models).      *)
(***************************************************************************)
AllCrops == <<
    [name |-> "Maize", temperature_range |-> <<18, 30>>,
     rainfall_range |-> <<500, 800>>, soil_ph_range |-> <<58, 70>>,
     soil_types |-> << <<"L", "o", "a", "m", "y">>, Sandy >>,
     season |-> Summer, tips |-> "Plant after the first rains"],
    [name |-> "Sorghum", temperature_range |-> <<20, 35>>,
     rainfall_range |-> <<300, 800>>, soil_ph_range |-> <<55, 85>>,
     soil_types |-> << Sandy, Loamy >>,
     season |-> <<"S", "u", "m", "m", "e", "r">>, tips |-> "Tolerates drought"],
    [name |-> "Wheat", temperature_range |-> <<10, 24>>,
     rainfall_range |-> <<300, 600>>, soil_ph_range |-> <<60, 75>>,
     soil_types |-> << Loamy, <<"C", "L", "A", "Y">> >>,
     season |-> Winter, tips |-> "Sow in rows"],
    [name |-> "Potato", temperature_range |-> <<15, 22>>,
     rainfall_range |-> <<400, 600>>, soil_ph_range |-> <<50, 65>>,
     soil_types |-> << <<"S", "a", "n", "d", "y">>, Loamy >>,
     season |-> Spring, tips |-> "Hill the plants"],
    [name |-> "Sugarcane", temperature_range |-> <<22, 35>>,
     rainfall_range |-> <<600, 800>>, soil_ph_range |-> <<60, 80>>,
     soil_types |-> << Clay, Loamy >>,
     season |-> Summer, tips |-> "Needs much water"],
    [name |-> "Cabbage", temperature_range |-> <<10, 24>>,
     rainfall_range |-> <<300, 600>>, soil_ph_range |-> <<60, 75>>,
     soil_types |-> << Loamy, Clay >>,
     season |-> Winter, tips |-> "Watch for pests"] >>

\* Number of records of the catalog document.
CatalogLen == 5

\* load_crops(): the catalog as a list of Crop models, in document order.
load_crops == SubSeq(AllCrops, 1, CatalogLen)

(***************************************************************************)
(* Python values: results and raised exceptions.                           *)
(***************************************************************************)
Value(v) == [kind |-> "value", v |-> v]

Raise(type) == [kind |-> "exception", type |-> type]

Raised(r) == r.kind = "exception"

\* Python truthiness of an optional string.
TruthyStr(x) == x # None /\ x[1] # ""

(***************************************************************************)
(* The catalog document and its two loaders.  A document is JSON or not;   *)
(* its records are dicts in which a key may be missing and a range may     *)
(* have any number of elements.                                            *)
(***************************************************************************)
\* models.py 5-11: every field of Crop is required.
CropFields == {"name", "temperature_range", "rainfall_range", "soil_ph_range",
               "soil_types", "season", "tips"}

\* Tuple[float, float]: exactly two numbers.
ValidRange(range) == Len(range) = 2

\* Crop(**c) validates (models.py 4-11): the fields are there and the ranges
\* are pairs; nothing compares the two ends of a range.
ValidCrop(c) ==
    /\ CropFields \subseteq DOMAIN c
    /\ ValidRange(c.temperature_range)
    /\ ValidRange(c.rainfall_range)
    /\ ValidRange(c.soil_ph_range)

\* recommender.py 8-11 applied to the document `doc`.
LoadCrops(doc) ==
    IF ~doc.wellformed THEN Raise("JSONDecodeError")
    ELSE IF \E i \in DOMAIN doc.records : ~ValidCrop(doc.records[i])
      THEN Raise("ValidationError")
    ELSE Value(doc.records)

\* chatbot.py 7-8 applied to the document `doc`: json.load alone.
ChatbotLoad(doc) ==
    IF ~doc.wellformed THEN Raise("JSONDecodeError") ELSE Value(doc.records)

\* The document that holds the catalog.
GoodDocument == [wellformed |-> TRUE, records |-> load_crops]

\* Documents are named by a kind, the place of the broken record and the
\* way it is broken; this names the catalog itself.
CatalogName == <<"catalog", 0, "">>

\* A running server whose document is the catalog, read once by chatbot.py
\* at import.
CatalogServing ==
    /\ crops_json = CatalogName
    /\ chatbot_crops = CatalogName
    /\ process = "up"
    /\ reads = 1

(***************************************************************************)
(* recommender.py: matching                                                *)
(***************************************************************************)
\* the comparison with the bounds excluded
InRangeExclusive(range, x) == range[1] < x /\ x < range[2]

\* lo <= x <= hi, as the chained comparison of recommender.py 18-20
InRange(range, x) == range[1] <= x /\ x <= range[2]

\* recommender.py 18-21: the condition under which a crop is recommended.
CropMatches(crop, temp, rain, ph, soil_type) ==
    /\ InRange(crop.temperature_range, temp)
    /\ InRange(crop.rainfall_range, rain)
    /\ InRange(crop.soil_ph_range, ph)
    /\ \E k \in DOMAIN crop.soil_types :
          LowerSoilType(soil_type) = Lower(crop.soil_types[k])

\* recommender.py 17-26: the loop over the catalog, from record i on.
RECURSIVE RecommendLoop(_, _, _, _, _, _, _)
RecommendLoop(crops, i, acc, temp, rain, ph, soil_type) ==
    IF i > Len(crops) THEN acc
    ELSE RecommendLoop(crops, i + 1,
            IF CropMatches(crops[i], temp, rain, ph, soil_type)
              THEN Append(acc, [name |-> crops[i].name,
                                season |-> crops[i].season,
                                tips |-> crops[i].tips])
              ELSE acc,
            temp, rain, ph, soil_type)

\* recommend_crops(temp, rain, ph, soil_type) for numeric arguments.
recommend_crops(temp, rain, ph, soil_type) ==
    RecommendLoop(load_crops, 1, <<>>, temp, rain, ph, soil_type)

(***************************************************************************)
(* recommender.py: scoring                                                 *)
(***************************************************************************)
\* A property of the soil analysis: present or not, and its value (None for
\* JSON null).
NoProperty == [present |-> FALSE, value |-> None]

Property(v) == [present |-> TRUE, value |-> v]

\* ph_data.get("value") of recommender.py 223-225 and 73-74:
\* soil_analysis.get("ph", {}).get("value")
PhValue(soil_analysis) ==
    IF soil_analysis.ph.present THEN soil_analysis.ph.value ELSE None

Max(a, b) == IF a >= b THEN a ELSE b

Min(a, b) == IF a <= b THEN a ELSE b

\* recommender.py 205-210
TemperatureScore(temp) ==
    IF 18 <= temp /\ temp <= 27 THEN 20
    ELSE IF 15 <= temp /\ temp <= 30 THEN 10
    ELSE IF temp < 10 \/ temp > 35 THEN -20
    ELSE 0

\* recommender.py 213-218
HumidityScore(humidity) ==
    IF 50 <= humidity /\ humidity <= 70 THEN 15
    ELSE IF humidity > 90 THEN -10
    ELSE IF humidity < 30 THEN -15
    ELSE 0

\* recommender.py 221-230; soil_data is None or <<analysis>>
SoilScore(soil_data) ==
    IF soil_data = None THEN 0
    ELSE LET ph == PhValue(soil_data[1].soil_analysis)
         IN  IF ~Truthy(ph) THEN 0
             ELSE IF 60 <= ph[1] /\ ph[1] <= 75 THEN 15
             ELSE IF ph[1] < 50 \/ ph[1] > 85 THEN -15
             ELSE 0

\* calculate_suitability_score for a numeric temperature and humidity.
calculate_suitability_score(temp, humidity, soil_data) ==
    Max(0, Min(100, 50 + TemperatureScore(temp) + HumidityScore(humidity)
                       + SoilScore(soil_data)))

\* A recommendation with its tips and score attached (recommender.py 147-183).
Enhanced(rec, tips, score) ==
    [name |-> rec.name, season |-> rec.season, tips |-> rec.tips,
     enhanced_tips |-> tips, suitability_score |-> score]

\* The weather tips with the humidity tip put first.
WeatherTipsHumidityFirst(temp, humidity) ==
    (IF humidity > 80 THEN <<"High humidity - monitor for fungal diseases">>
     ELSE IF humidity < 40 THEN <<"Low humidity - increase irrigation frequency">>
     ELSE <<>>)
    \o
    (IF temp > 30 THEN <<"High temperature - ensure adequate irrigation">>
     ELSE IF temp < 15
       THEN <<"Cool weather - consider protection for sensitive crops">>
     ELSE <<>>)

\* recommender.py 153-162
WeatherTips(temp, humidity) ==
    (IF temp > 30 THEN <<"High temperature - ensure adequate irrigation">>
     ELSE IF temp < 15
       THEN <<"Cool weather - consider protection for sensitive crops">>
     ELSE <<>>)
    \o
    (IF humidity > 80 THEN <<"High humidity - monitor for fungal diseases">>
     ELSE IF humidity < 40 THEN <<"Low humidity - increase irrigation frequency">>
     ELSE <<>>)

\* recommender.py 165-169
SoilTips(soil_data) ==
    IF soil_data = None THEN <<>>
    ELSE soil_data[1].agricultural_interpretation.recommendations

\* An unstable sort: an element goes in front of its equals.
InsertPointBeforeEquals(sorted, score) ==
    Cardinality({i \in DOMAIN sorted : sorted[i].suitability_score > score})

\* Number of elements of a score-descending list that an element of score
\* `score` goes behind: list.sort(reverse=True) is stable, so it goes behind
\* its equals.
InsertPoint(sorted, score) ==
    Cardinality({i \in DOMAIN sorted : sorted[i].suitability_score >= score})

\* recommender.py 186: enhanced.sort(key=suitability_score, reverse=True),
\* as the insertion of each element in turn.
RECURSIVE SortByScore(_, _, _)
SortByScore(list, i, sorted) ==
    IF i > Len(list) THEN sorted
    ELSE LET k == InsertPoint(sorted, list[i].suitability_score)
         IN  SortByScore(list, i + 1,
                 SubSeq(sorted, 1, k) \o <<list[i]>>
                    \o SubSeq(sorted, k + 1, Len(sorted)))

\* An enhancement whose score also depends on the crop: a crop in its season
\* of summer scores five more.
EnhanceWithCropScore(recommendations, temp, humidity, soil_data) ==
    SortByScore(
        [i \in DOMAIN recommendations |->
            Enhanced(recommendations[i],
                     <<recommendations[i].tips>> \o WeatherTips(temp, humidity)
                        \o SoilTips(soil_data),
                     Min(100, calculate_suitability_score(temp, humidity, soil_data)
                                + (IF Lower(recommendations[i].season) = Summer
                                     THEN 5 ELSE 0)))],
        1, <<>>)

\* enhance_recommendations_with_context for a numeric temperature and
\* humidity (recommender.py 144-188).
enhance_recommendations_with_context(recommendations, temp, humidity, soil_data) ==
    SortByScore(
        [i \in DOMAIN recommendations |->
            Enhanced(recommendations[i],
                     <<recommendations[i].tips>> \o WeatherTips(temp, humidity)
                        \o SoilTips(soil_data),
                     calculate_suitability_score(temp, humidity, soil_data))],
        1, <<>>)

(***************************************************************************)
(* weather_service.py                                                      *)
(***************************************************************************)
\* Responses that make the body of the try block fail: no connection or a
\* timeout, a non-success status, a body that is not JSON, and JSON of an
\* unexpected shape (a top-level array, or "weather": []).
WeatherFailures == {"transport_error", "http_error", "bad_json", "malformed"}

\* What the failing statement of the try block raises (weather_service.py
\* 41, 42, 44 and 47-75; 118, 119, 121 and 124-160).
WeatherFailure(kind) ==
    CASE kind = "transport_error" -> Raise("ConnectionError")
      [] kind = "http_error" -> Raise("HTTPError")
      [] kind = "bad_json" -> Raise("JSONDecodeError")
      [] OTHER -> Raise("IndexError")

\* The exception classes of requests.exceptions.RequestException.
RequestExceptions == {"ConnectionError", "HTTPError", "JSONDecodeError"}

\* weather_service.py 41-77: the body of the try block of get_current_weather.
CurrentWeatherBody(response) ==
    IF response.kind \in WeatherFailures THEN WeatherFailure(response.kind)
    ELSE Value(Some(
            [name |-> IF response.payload.name = None THEN "Unknown"
                      ELSE response.payload.name[1],
             lat |-> response.payload.lat,
             lon |-> response.payload.lon,
             temp |-> response.payload.temp,
             humidity |-> response.payload.humidity,
             description |-> response.payload.description]))

\* Only the first except clause: other exceptions pass through.
WeatherExceptRequestOnly(outcome) ==
    IF Raised(outcome) /\ outcome.type \in RequestExceptions
      THEN Value(None) ELSE outcome

\* weather_service.py 79-84 and 164-169: `except RequestException` and
\* `except Exception` both return None.
WeatherExcept(outcome) ==
    IF Raised(outcome) /\ outcome.type \in RequestExceptions THEN Value(None)
    ELSE IF Raised(outcome) THEN Value(None)
    ELSE outcome

\* get_current_weather(key, response): ValueError without a key (22-23),
\* None for a failed or malformed response (79-84), else the record mapped
\* field by field from the payload (47-75).
get_current_weather(key, response) ==
    IF key = "" THEN Raise("ValueError")
    ELSE WeatherExcept(CurrentWeatherBody(response))

\* Number of outbound requests of one weather call: the key is checked (22-23,
\* 99-100) before requests.get (41, 118), which is called once.
WeatherRequestsSent(key) == IF key = "" THEN 0 ELSE 1

\* Forecast entries per day (3-hour intervals).
EntriesPerDay == 8

\* list[:n]
Take(list, n) == SubSeq(list, 1, Min(Len(list), Max(n, 0)))

\* weather_service.py 118-162: the body of the try block of get_forecast.
ForecastBody(response, days) ==
    IF response.kind \in WeatherFailures THEN WeatherFailure(response.kind)
    ELSE LET items == Take(response.payload.list, days * EntriesPerDay)
         IN  Value(Some(
                [name |-> IF response.payload.name = None THEN "Unknown"
                          ELSE response.payload.name[1],
                 forecasts |-> [i \in DOMAIN items |->
                                  [temp |-> items[i].temp,
                                   description |-> items[i].description,
                                   rain |-> IF items[i].rain = None THEN Some(0)
                                            ELSE items[i].rain]]]))

\* get_forecast(key, response, days) (weather_service.py 86-169)
get_forecast(key, response, days) ==
    IF key = "" THEN Raise("ValueError")
    ELSE WeatherExcept(ForecastBody(response, days))

\* Responses of the weather provider: a failure, or a payload in which any
\* field may be missing.
WeatherResponses ==
    {[kind |-> k] : k \in WeatherFailures}
    \cup {[kind |-> "ok", payload |-> w] :
            w \in [name : {None, Some("Durban")},
                   lat : {None, Some(-30), Some(0)},
                   lon : {None, Some(31)},
                   temp : {None, Some(8), Some(22), Some(33)},
                   humidity : {None, Some(39), Some(40), Some(59), Some(60),
                               Some(79), Some(80)},
                   description : {None, Some("clear sky")}]}

\* Entries of a forecast list; a None field is a key the entry lacks.
ForecastItems ==
    [temp : {None, Some(20)}, description : {None, Some("rain")},
     rain : {None, Some(2)}]

\* A forecast list longer than one day of entries.
LongForecast ==
    [i \in 1..(EntriesPerDay + 1) |->
        [temp |-> Some(10 + i), description |-> Some("rain"), rain |-> None]]

\* Responses of the forecast endpoint.
ForecastResponses ==
    {[kind |-> k] : k \in WeatherFailures}
    \cup {[kind |-> "ok", payload |-> w] :
            w \in [name : {None, Some("Durban")},
                   list : {<<>>, LongForecast} \cup {<<e>> : e \in ForecastItems}]}

\* Values of the `days` argument (default 5; chatbot.py 70 passes 3).
ForecastDays == {0, 1, 3, 5}

(***************************************************************************)
(* recommender.py: seasonal recommendations                                *)
(***************************************************************************)
\* recommender.py 289-297; a None temperature cannot be compared.
check_seasonal_suitability(current_temp, season) ==
    LET s == Lower(season)
        range == IF s = Spring THEN <<15, 25>>
                 ELSE IF s = Summer THEN <<20, 35>>
                 ELSE IF s = Autumn THEN <<10, 25>>
                 ELSE IF s = Winter THEN <<5, 20>>
                 ELSE <<10, 30>>
    IN  IF current_temp = None THEN Raise("TypeError")
        ELSE Value(range[1] <= current_temp[1] /\ current_temp[1] <= range[2])

\* recommender.py 271-279: the body of the try block.
CurrentConditions(season, weather) ==
    IF Raised(weather) THEN weather
    ELSE IF weather.v = None THEN Value(None)
    ELSE LET suitable == check_seasonal_suitability(weather.v[1].temp, season)
         IN  IF Raised(suitable) THEN suitable
             ELSE Value(Some([temperature |-> weather.v[1].temp[1],
                              suitable_for_season |-> suitable.v]))

\* A try block that lets the errors through.
PropagateWeatherErrors(conditions) == conditions

\* recommender.py 280-281: `except: pass`.
IgnoreWeatherErrors(conditions) ==
    IF Raised(conditions) THEN Value(None) ELSE conditions

\* recommender.py 239
SeasonalCrops(season) ==
    SelectSeq(load_crops, LAMBDA crop : Lower(crop.season) = Lower(season))

\* get_seasonal_recommendations(season, location); `weather` is what
\* get_current_weather gives when it is called (recommender.py 234-283).
get_seasonal_recommendations(season, location, weather) ==
    LET crops == SeasonalCrops(season)
        conditions == IF TruthyStr(location)
                        THEN IgnoreWeatherErrors(CurrentConditions(season, weather))
                        ELSE Value(None)
    IN  IF crops = <<>>
          THEN Value([season |-> season, recommendations |-> <<>>,
                      message |-> "No crops found"])
        ELSE IF Raised(conditions) THEN conditions
        ELSE Value([season |-> season,
                    recommendations |-> crops,
                    location |-> IF TruthyStr(location) THEN location[1]
                                 ELSE "General",
                    total_crops |-> Len(crops),
                    current_conditions |-> conditions.v])

(***************************************************************************)
(* soil_service.py: the soil record and its interpretation.  A provider    *)
(* answer is held for the four properties the interpretation reads; each   *)
(* entry is absent, not an object with a "value", or an object whose value *)
(* may be null.                                                            *)
(***************************************************************************)
\* soil_service.py 110-117: the entries that are objects with a "value".
ExtractEntry(entry) ==
    IF entry.shape = "dict" THEN Property(entry.value) ELSE NoProperty

ExtractProperties(answer) ==
    [ph |-> ExtractEntry(answer.ph), soc |-> ExtractEntry(answer.soc),
     sand |-> ExtractEntry(answer.sand), clay |-> ExtractEntry(answer.clay)]

\* properties.get(name, {}).get("value", 0) of soil_service.py 234-235
ValueOrZero(property) == IF property.present THEN property.value ELSE Some(0)

\* soil_service.py 222-231: the pH status and its advisory line.
PhStatus(properties) ==
    IF properties.ph.present /\ Truthy(properties.ph.value)
      THEN IF properties.ph.value[1] < 55
             THEN <<"Acidic - may need lime", <<"Consider soil liming to increase pH">> >>
           ELSE IF properties.ph.value[1] > 75
             THEN <<"Alkaline - may limit nutrient availability",
                    <<"Monitor nutrient availability in alkaline conditions">> >>
           ELSE <<"Optimal for most crops", <<>> >>
      ELSE <<"Unknown", <<>> >>

\* The texture with clay tested before sand.
SoilTextureClayFirst(properties) ==
    LET sand == ValueOrZero(properties.sand)
        clay == ValueOrZero(properties.clay)
    IN  IF clay = None THEN Raise("TypeError")
        ELSE IF clay[1] > 40 THEN Value("Clay")
        ELSE IF sand = None THEN Raise("TypeError")
        ELSE IF sand[1] > 70 THEN Value("Sandy")
        ELSE Value("Loamy")

\* soil_service.py 234-243: the texture label (the text after the first word
\* is left out); comparing None with a number raises TypeError.
SoilTexture(properties) ==
    LET sand == ValueOrZero(properties.sand)
        clay == ValueOrZero(properties.clay)
    IN  IF sand = None THEN Raise("TypeError")
        ELSE IF sand[1] > 70 THEN Value("Sandy")
        ELSE IF clay = None THEN Raise("TypeError")
        ELSE IF clay[1] > 40 THEN Value("Clay")
        ELSE Value("Loamy")

\* soil_service.py 246-254: the organic matter status and its advisory line.
OrganicMatter(properties) ==
    IF properties.soc.present /\ Truthy(properties.soc.value)
      THEN IF properties.soc.value[1] < 10
             THEN <<"Low - needs organic matter addition",
                    <<"Add compost or organic matter to improve soil health">> >>
           ELSE IF properties.soc.value[1] > 30
             THEN <<"High - excellent soil health", <<>> >>
           ELSE <<"Moderate - adequate for crop production", <<>> >>
      ELSE <<"Unknown", <<>> >>

\* _interpret_soil_for_agriculture (soil_service.py 202-256)
interpret_soil_for_agriculture(properties) ==
    LET texture == SoilTexture(properties)
    IN  IF Raised(texture) THEN texture
        ELSE Value([soil_type |-> texture.v,
                    fertility_rating |-> "Unknown",
                    ph_status |-> PhStatus(properties)[1],
                    organic_matter |-> OrganicMatter(properties)[1],
                    recommendations |-> PhStatus(properties)[2]
                                          \o OrganicMatter(properties)[2]])

\* get_agricultural_soil_analysis (soil_service.py 188-200), given how
\* get_soil_properties ended and the provider's answer when it ended with data.
get_agricultural_soil_analysis(soil_result, answer) ==
    IF soil_result = "raised" THEN Raise("ValueError")
    ELSE IF soil_result = "none" THEN Value(None)
    ELSE LET properties == ExtractProperties(answer)
             interpretation == interpret_soil_for_agriculture(properties)
         IN  IF Raised(interpretation) THEN interpretation
             ELSE Value(Some([soil_analysis |-> properties,
                              agricultural_interpretation |-> interpretation.v]))

(***************************************************************************)
(* recommender.py: recommend_crops_with_location                           *)
(***************************************************************************)
\* The step function with its thresholds excluded.
EstimateRainfallStrict(humidity) ==
    IF humidity > 80 THEN 800
    ELSE IF humidity > 60 THEN 600
    ELSE IF humidity > 40 THEN 400
    ELSE 300

\* recommender.py 122-134
estimate_rainfall_from_humidity(humidity) ==
    IF humidity >= 80 THEN 800
    ELSE IF humidity >= 60 THEN 600
    ELSE IF humidity >= 40 THEN 400
    ELSE 300

\* An error result that still carries a weather entry.
WeatherErrorResultWithWeather ==
    [error |-> "Unable to get weather data", recommendations |-> <<>>,
     weather |-> Some([temperature |-> None]), soil |-> None]

\* recommender.py 45-50
WeatherErrorResult ==
    [error |-> "Unable to get weather data", recommendations |-> <<>>,
     weather |-> None, soil |-> None]

\* recommender.py 115-120
ServiceErrorResult(type) ==
    [error |-> <<"Recommendation service error", type>>,
     recommendations |-> <<>>, weather |-> None, soil |-> None]

\* A handler that catches ValueError only.
CatchValueError(outcome) ==
    IF Raised(outcome) /\ outcome.type = "ValueError"
      THEN ServiceErrorResult(outcome.type)
    ELSE IF Raised(outcome) THEN outcome
    ELSE outcome.v

\* recommender.py 41 and 114-120: every Exception becomes an error result.
CatchException(outcome) ==
    IF Raised(outcome) THEN ServiceErrorResult(outcome.type) ELSE outcome.v

\* soil_data.get("soil_analysis") is a non-empty dict (recommender.py 72).
HasAnalysis(soil_data) ==
    /\ soil_data # None
    /\ \/ soil_data[1].soil_analysis.ph.present
       \/ soil_data[1].soil_analysis.soc.present
       \/ soil_data[1].soil_analysis.sand.present
       \/ soil_data[1].soil_analysis.clay.present

\* recommender.py 69-75
SoilPh(soil_data) ==
    IF HasAnalysis(soil_data) /\ Truthy(PhValue(soil_data[1].soil_analysis))
      THEN PhValue(soil_data[1].soil_analysis)[1]
      ELSE 65

\* recommender.py 70 and 77-84
SoilTypeDetected(soil_data) ==
    IF HasAnalysis(soil_data)
      THEN LET label == soil_data[1].agricultural_interpretation.soil_type
           IN  IF label = "Sandy" THEN Sandy
               ELSE IF label = "Clay" THEN Clay
               ELSE Loamy
      ELSE Loamy

\* recommender.py 61-112: the result built from a weather record and the
\* soil analysis (None or <<analysis>>).  A None humidity fails in
\* estimate_rainfall_from_humidity (127) and a None temperature in the first
\* comparison of recommend_crops (18).
Fuse(weather, soil_data) ==
    IF weather.humidity = None THEN Raise("TypeError")
    ELSE IF weather.temp = None /\ Len(load_crops) > 0 THEN Raise("TypeError")
    ELSE LET humidity == weather.humidity[1]
             rain == estimate_rainfall_from_humidity(humidity)
             soil_ph == SoilPh(soil_data)
             soil_type == SoilTypeDetected(soil_data)
             recommendations ==
                 IF weather.temp = None THEN <<>>
                 ELSE enhance_recommendations_with_context(
                         recommend_crops(weather.temp[1], rain, soil_ph, soil_type),
                         weather.temp[1], humidity, soil_data)
         IN  Value([location |-> weather.name,
                    recommendations |-> recommendations,
                    weather |-> Some([temperature |-> weather.temp,
                                      humidity |-> humidity,
                                      description |-> weather.description,
                                      estimated_rainfall |-> rain]),
                    soil |-> Some([ph |-> soil_ph, type |-> soil_type,
                                   analysis_available |-> soil_data # None]),
                    data_sources |->
                        [weather |-> "OpenWeatherMap",
                         soil |-> IF soil_data # None THEN "iSDAsoil"
                                  ELSE "Default values"]])

\* Number of times lines 61-112 read the catalog: recommend_crops (87) calls
\* load_crops (15) unless estimate_rainfall_from_humidity (66) has failed.
FuseReads(weather) == IF weather.humidity = None THEN 0 ELSE 1

\* The thread that serves the place request.
PlaceProc == 1

NoWeather == [kind |-> "unset"]

NoResult == [kind |-> "unset"]

\* soil_data before line 53 is reached.
NoSoil == [kind |-> "unset"]

PlaceIdle ==
    /\ ppc = "idle"
    /\ pargs = [city |-> None, lat |-> None, lon |-> None]
    /\ pweather = NoWeather
    /\ psoil = NoSoil
    /\ presult = NoResult

\* Arguments the route passes on (main.py 31-37): a city, or coordinates.
PlaceArgs == {[city |-> Some("Durban"), lat |-> None, lon |-> None],
              [city |-> None, lat |-> Some(-30), lon |-> Some(31)],
              [city |-> None, lat |-> Some(0), lon |-> Some(31)]}

\* Weather responses of the place request.
PlaceWeatherResponses ==
    {r \in WeatherResponses :
        r.kind = "ok" => r.payload.description = Some("clear sky")}

\* Answers of the soil provider to a successful GET.
SoilAnswers ==
    [ph : {[shape |-> "absent", value |-> None]}
            \cup {[shape |-> "dict", value |-> v] :
                    v \in {None, Some(0), Some(45), Some(65), Some(80)}},
     soc : {[shape |-> "absent", value |-> None]}
            \cup {[shape |-> "dict", value |-> v] : v \in {None, Some(5), Some(40)}},
     sand : {[shape |-> "absent", value |-> None],
             [shape |-> "scalar", value |-> None]}
            \cup {[shape |-> "dict", value |-> v] :
                    v \in {None, Some(80), Some(70), Some(30)}},
     clay : {[shape |-> "absent", value |-> None]}
            \cup {[shape |-> "dict", value |-> v] : v \in {None, Some(50), Some(40)}}]

\* The answer of a GET that gave no data.
NoAnswer == [ph |-> [shape |-> "absent", value |-> None],
             soc |-> [shape |-> "absent", value |-> None],
             sand |-> [shape |-> "absent", value |-> None],
             clay |-> [shape |-> "absent", value |-> None]]

\* The answers get_soil_properties can have read when it ended with soil_result.
AnswersFor(soil_result) ==
    IF soil_result = "data" THEN SoilAnswers ELSE {NoAnswer}

\* recommend_crops_with_location is called.
PlaceCall(args) ==
    /\ ppc = "idle"
    /\ pargs' = args
    /\ ppc' = "weather"
    /\ UNCHANGED <<soilVars, api_key, call, pweather, presult, psoil,
                   catalogVars>>

\* recommender.py 52-55: soil is asked for when the weather record's
\* coordinates are both truthy.
SoilWanted(weather) == Truthy(weather.lat) /\ Truthy(weather.lon)

\* recommender.py 43-59: the weather call; then the error result, the call
\* of get_agricultural_soil_analysis, or the result without soil.
PlaceWeather(response) ==
    /\ ppc = "weather"
    /\ LET weather == get_current_weather(api_key, response)
       IN  /\ pweather' = weather
           /\ IF Raised(weather)
                THEN /\ presult' = CatchException(weather)
                     /\ ppc' = "done"
                     /\ UNCHANGED <<pc, reads, psoil>>
              ELSE IF weather.v = None
                THEN /\ presult' = WeatherErrorResult
                     /\ ppc' = "done"
                     /\ UNCHANGED <<pc, reads, psoil>>
              ELSE IF SoilWanted(weather.v[1])
                THEN /\ pc' = [pc EXCEPT ![PlaceProc] = "check_token"]
                     /\ ppc' = "soil"
                     /\ UNCHANGED <<presult, reads, psoil>>
              ELSE /\ psoil' = Value(None)
                   /\ presult' = CatchException(Fuse(weather.v[1], None))
                   /\ reads' = reads + FuseReads(weather.v[1])
                   /\ ppc' = "done"
                   /\ UNCHANGED pc
    /\ UNCHANGED <<username, password, access_token, issued, in401, rtok, hdr,
                   log, result, api_key, call, pargs,
                   crops_json, chatbot_crops, process>>

\* recommender.py 56-112 once get_soil_properties has ended: the analysis of
\* the provider's answer and the result.
PlaceSoil(answer) ==
    /\ ppc = "soil"
    /\ pc[PlaceProc] = "done"
    /\ LET analysis == get_agricultural_soil_analysis(result[PlaceProc], answer)
       IN  /\ psoil' = analysis
           /\ presult' = CatchException(IF Raised(analysis) THEN analysis
                                        ELSE Fuse(pweather.v[1], analysis.v))
           /\ reads' = reads + (IF Raised(analysis) THEN 0
                                ELSE FuseReads(pweather.v[1]))
    /\ ppc' = "done"
    /\ UNCHANGED <<soilVars, api_key, call, pargs, pweather,
                   crops_json, chatbot_crops, process>>

(***************************************************************************)
(* Direct calls of the pure operations, one call per behaviour.            *)
(***************************************************************************)
NoCall == [op |-> "none"]

ScoreTemps == {5, 9, 10, 14, 15, 17, 18, 22, 27, 28, 30, 31, 35, 36}

ScoreHumidities == {20, 29, 30, 49, 50, 60, 70, 71, 90, 91, 95}

\* pH values in tenths
ScorePhs == {0, 45, 49, 50, 59, 60, 68, 75, 76, 85, 86, 90}

\* The soil analysis of a provider answer that holds only the pH entry `ph`.
PhOnly(ph) == [ph |-> ph, soc |-> NoProperty, sand |-> NoProperty,
               clay |-> NoProperty]

\* The analysis that get_agricultural_soil_analysis returns for such an answer.
PhOnlyAnalysis(ph) ==
    [soil_analysis |-> PhOnly(ph),
     agricultural_interpretation |->
        [soil_type |-> "Loamy", fertility_rating |-> "Unknown",
         ph_status |-> "Unknown", organic_matter |-> "Unknown",
         recommendations |-> <<>>]]

ScoreSoils ==
    {None, Some(PhOnlyAnalysis(NoProperty)), Some(PhOnlyAnalysis(Property(None)))}
    \cup {Some(PhOnlyAnalysis(Property(Some(ph)))) : ph \in ScorePhs}

CallScore ==
    /\ call = NoCall
    /\ \E temp \in ScoreTemps, humidity \in ScoreHumidities, soil_data \in ScoreSoils :
          call' = [op |-> "score", temp |-> temp, humidity |-> humidity,
                   soil_data |-> soil_data,
                   out |-> calculate_suitability_score(temp, humidity, soil_data)]
    /\ UNCHANGED <<soilVars, api_key, placeVars, catalogVars>>

MatchTemps == {9, 10, 17, 18, 20, 22, 24, 25, 30, 31, 35, 36}

MatchRains == {299, 300, 400, 500, 600, 800, 801}

MatchPhs == {49, 50, 58, 65, 70, 75, 85, 86}

MatchSoilTypes == {Loamy, <<"L", "O", "A", "M", "Y">>, <<"S", "a", "n", "d", "y">>,
                   Clay, <<"p", "e", "a", "t">>}

CallRecommend ==
    /\ call = NoCall
    /\ \E temp \in MatchTemps, rain \in MatchRains, ph \in MatchPhs,
          soil_type \in MatchSoilTypes :
          call' = [op |-> "recommend", temp |-> temp, rain |-> rain, ph |-> ph,
                   soil_type |-> soil_type,
                   out |-> recommend_crops(temp, rain, ph, soil_type)]
    /\ reads' = reads + 1
    /\ UNCHANGED <<soilVars, api_key, placeVars, crops_json, chatbot_crops, process>>

Seasons == {Summer, <<"W", "i", "n", "t", "e", "r">>, Spring, Autumn,
            <<"m", "o", "n", "s", "o", "o", "n">>}

Locations == {None, Some(""), Some("Durban")}

\* get_agricultural_soil_analysis on an answer that get_soil_properties read.
CallAnalysis ==
    /\ call = NoCall
    /\ \E answer \in SoilAnswers :
          call' = [op |-> "analysis", answer |-> answer,
                   out |-> get_agricultural_soil_analysis("data", answer)]
    /\ UNCHANGED <<soilVars, api_key, placeVars, catalogVars>>

EnhanceTemps == {14, 15, 22, 30, 31}

EnhanceHumidities == {39, 40, 60, 80, 81}

\* Lists that recommend_crops returns.
EnhanceLists ==
    {recommend_crops(temp, 600, 65, Loamy) : temp \in {9, 17, 22}}

\* Soil analyses whose advisory holds no, one or two lines, and no analysis.
EnhanceSoils ==
    {None} \cup
    {get_agricultural_soil_analysis("data", answer).v :
        answer \in {a \in SoilAnswers :
                       /\ a.ph.shape = "dict" /\ a.ph.value # None
                       /\ a.soc.shape = "dict" /\ a.soc.value # None
                       /\ a.sand = [shape |-> "dict", value |-> Some(30)]
                       /\ a.clay = [shape |-> "dict", value |-> Some(40)]}}

\* enhance_recommendations_with_context on a list of recommendations.
CallEnhance ==
    /\ call = NoCall
    /\ \E recommendations \in EnhanceLists, temp \in EnhanceTemps,
          humidity \in EnhanceHumidities, soil_data \in EnhanceSoils :
          call' = [op |-> "enhance", recommendations |-> recommendations,
                   temp |-> temp, humidity |-> humidity, soil_data |-> soil_data,
                   out |-> enhance_recommendations_with_context(
                              recommendations, temp, humidity, soil_data)]
    /\ UNCHANGED <<soilVars, api_key, placeVars, catalogVars>>

\* get_current_weather or get_forecast called with the configured key.
CallWeather ==
    /\ call = NoCall
    /\ \/ \E response \in WeatherResponses :
             call' = [op |-> "weather", fn |-> "get_current_weather",
                      response |-> response,
                      sent |-> WeatherRequestsSent(api_key),
                      out |-> get_current_weather(api_key, response)]
       \/ \E response \in ForecastResponses, days \in ForecastDays :
             call' = [op |-> "weather", fn |-> "get_forecast",
                      response |-> response, days |-> days,
                      sent |-> WeatherRequestsSent(api_key),
                      out |-> get_forecast(api_key, response, days)]
    /\ UNCHANGED <<soilVars, api_key, placeVars, catalogVars>>

CallSeasonal ==
    /\ call = NoCall
    /\ \E season \in Seasons, location \in Locations, response \in WeatherResponses :
          LET weather == get_current_weather(api_key, response)
          IN  call' = [op |-> "seasonal", season |-> season,
                       location |-> location, weather |-> weather,
                       out |-> get_seasonal_recommendations(season, location,
                                                            weather)]
    /\ reads' = reads + 1
    /\ UNCHANGED <<soilVars, api_key, placeVars, crops_json, chatbot_crops, process>>

\* SoilService.__init__ run once at import (soil_service.py 6-11, 278); the
\* credentials come from the environment (config.py 12-13).
SoilInit ==
    /\ username \in {"", "farmer"}
    /\ password \in {"", "secret"}
    /\ access_token = None
    /\ issued = 0
    /\ pc = [p \in Procs |-> "idle"]
    /\ in401 = [p \in Procs |-> FALSE]
    /\ rtok = [p \in Procs |-> None]
    /\ hdr = [p \in Procs |-> None]
    /\ log = [p \in Procs |-> <<>>]
    /\ result = [p \in Procs |-> "pending"]

\* get_soil_properties returns (or raises) with outcome r; its locals
\* (headers, the login response) go out of scope.
Finish(p, r) ==
    /\ pc' = [pc EXCEPT ![p] = "done"]
    /\ result' = [result EXCEPT ![p] = r]
    /\ hdr' = [hdr EXCEPT ![p] = None]
    /\ rtok' = [rtok EXCEPT ![p] = None]

\* A request enters get_soil_properties.
Call(p) ==
    /\ pc[p] = "idle"
    /\ pc' = [pc EXCEPT ![p] = "check_token"]
    /\ UNCHANGED <<others, username, password, access_token, issued, in401, rtok, hdr,
                   log, result>>

\* A request that authenticates whether or not a token is stored.
NextAfterCheckAlwaysAuth(token) == "auth_post"

\* soil_service.py 64-65: where the request goes after testing the token.
NextAfterCheck(token) == IF Truthy(token) THEN "build_hdr" ELSE "auth_post"

\* soil_service.py 64-65: authenticate first when no token is stored.
CheckToken(p) ==
    /\ pc[p] = "check_token"
    /\ pc' = [pc EXCEPT ![p] = NextAfterCheck(access_token)]
    /\ UNCHANGED <<others, username, password, access_token, issued, in401, rtok, hdr,
                   log, result>>

\* authenticate, lines 20-33: the credential check and the POST.  A missing
\* credential raises ValueError: uncaught at line 65, caught by the
\* `except Exception` of line 124 when called from line 89.
AuthPost(p, outcome) ==
    /\ pc[p] = "auth_post"
    /\ IF ~CredentialsConfigured
         THEN /\ Finish(p, IF in401[p] THEN "none" ELSE "raised")
              /\ UNCHANGED <<issued, log>>
         ELSE /\ log' = [log EXCEPT ![p] = Append(@, "POST")]
              /\ CASE outcome = "token" ->
                        /\ issued' = issued + 1
                        /\ rtok' = [rtok EXCEPT ![p] = Token(issued + 1, in401[p])]
                        /\ pc' = [pc EXCEPT ![p] = "auth_store"]
                        /\ UNCHANGED <<result, hdr>>
                   [] outcome = "no_token" ->
                        /\ rtok' = [rtok EXCEPT ![p] = None]
                        /\ pc' = [pc EXCEPT ![p] = "auth_store"]
                        /\ UNCHANGED <<issued, result, hdr>>
                   [] OTHER ->
                        \* lines 43-48: authenticate returns False, and both
                        \* call sites (66, 93) return None
                        /\ Finish(p, "none")
                        /\ UNCHANGED issued
    /\ UNCHANGED <<others, username, password, access_token, in401>>

\* authenticate, line 34: the response's token (or None) is stored.
AuthStore(p) ==
    /\ pc[p] = "auth_store"
    /\ access_token' = rtok[p]
    /\ rtok' = [rtok EXCEPT ![p] = None]
    /\ pc' = [pc EXCEPT ![p] = "auth_test"]
    /\ UNCHANGED <<others, username, password, issued, in401, hdr, log, result>>

\* authenticate, lines 36-41, and its call sites 65-66 and 89-93: the stored
\* token is read back to decide between True and False.
AuthTest(p) ==
    /\ pc[p] = "auth_test"
    /\ IF Truthy(access_token)
         THEN /\ pc' = [pc EXCEPT ![p] = IF in401[p] THEN "rebuild_hdr"
                                                      ELSE "build_hdr"]
              /\ UNCHANGED <<result, hdr, rtok>>
         ELSE Finish(p, "none")
    /\ UNCHANGED <<others, username, password, access_token, issued, in401, log>>

\* soil_service.py 69-71: the Authorization header is built from the stored
\* token.
BuildHeader(p) ==
    /\ pc[p] = "build_hdr"
    /\ hdr' = [hdr EXCEPT ![p] = access_token]
    /\ pc' = [pc EXCEPT ![p] = "get"]
    /\ UNCHANGED <<others, username, password, access_token, issued, in401,
                   rtok, log, result>>

\* soil_service.py 84-95 for a GET that is not answered 401, and 121-126.
GetResult(status) == IF status = "ok" THEN "data" ELSE "none"

\* soil_service.py 84-89: the first GET; a 401 calls authenticate again.
Get(p, status) ==
    /\ pc[p] = "get"
    /\ IF status = "unauthorized"
         THEN /\ log' = [log EXCEPT ![p] = @ \o <<"GET", "401">>]
              /\ in401' = [in401 EXCEPT ![p] = TRUE]
              /\ pc' = [pc EXCEPT ![p] = "auth_post"]
              /\ UNCHANGED <<result, hdr, rtok>>
         ELSE /\ log' = [log EXCEPT ![p] = Append(@, "GET")]
              /\ Finish(p, GetResult(status))
              /\ UNCHANGED in401
    /\ UNCHANGED <<others, username, password, access_token, issued>>

\* soil_service.py 90: the header is rebuilt from the stored token.
RebuildHeader(p) ==
    /\ pc[p] = "rebuild_hdr"
    /\ hdr' = [hdr EXCEPT ![p] = access_token]
    /\ pc' = [pc EXCEPT ![p] = "retry_get"]
    /\ UNCHANGED <<others, username, password, access_token, issued, in401,
                   rtok, log, result>>

\* A faulty retry: a 401 on the retry authenticates and retries again.
AfterRetryLoops(p, status) ==
    IF status = "unauthorized"
      THEN /\ pc' = [pc EXCEPT ![p] = "auth_post"]
           /\ UNCHANGED <<result, hdr, rtok>>
      ELSE Finish(p, GetResult(status))

\* What the request does with the answer to its retry (lines 91-95): a
\* second 401 is an HTTPError of raise_for_status, caught at line 121.
AfterRetry(p, status) == Finish(p, GetResult(status))

\* soil_service.py 91-126: the retry GET.
RetryGet(p, status) ==
    /\ pc[p] = "retry_get"
    /\ log' = [log EXCEPT ![p] = IF status = "unauthorized"
                                   THEN @ \o <<"GET", "401">>
                                   ELSE Append(@, "GET")]
    /\ AfterRetry(p, status)
    /\ UNCHANGED <<others, username, password, access_token, issued, in401>>

\* One step of a request that is inside get_soil_properties.
Step(p) ==
    \/ CheckToken(p)
    \/ \E outcome \in AuthOutcomes : AuthPost(p, outcome)
    \/ AuthStore(p)
    \/ AuthTest(p)
    \/ BuildHeader(p)
    \/ \E status \in GetOutcomes : Get(p, status)
    \/ RebuildHeader(p)
    \/ \E status \in GetOutcomes : RetryGet(p, status)

\* The module-level weather_service and the state outside the soil session.
Init ==
    /\ SoilInit
    /\ api_key = "key"
    /\ call = NoCall
    /\ PlaceIdle
    /\ CatalogServing

Next == \E p \in Procs : Call(p) \/ Step(p)

\* Concurrent soil_properties requests on the shared session.
Spec == Init /\ [][Next]_vars

(***************************************************************************)
(* Claims about the soil session                                           *)
(***************************************************************************)

\* Number of occurrences of x in the sequence s.
Count(s, x) == Cardinality({i \in DOMAIN s : s[i] = x})

\* Index of the first 401 in a request's log of outbound traffic (0: none).
First401(s) ==
    IF \E i \in DOMAIN s : s[i] = "401"
      THEN CHOOSE i \in DOMAIN s : s[i] = "401" /\ \A j \in 1..(i-1) : s[j] # "401"
      ELSE 0

\* The log after its first 401.
After401(s) == SubSeq(s, First401(s) + 1, Len(s))

C1Safe(p) ==
    /\ Count(log[p], "GET") <= 2
    /\ First401(log[p]) > 0 =>
          /\ Count(After401(log[p]), "POST") <= 1
          /\ Count(After401(log[p]), "GET") <= 1
          /\ pc[p] \in {"auth_store", "auth_test", "rebuild_hdr", "retry_get", "done"}
                => Count(After401(log[p]), "POST") = 1
          /\ pc[p] = "done" /\ result[p] = "data"
                => After401(log[p]) = <<"POST", "GET">>
    /\ Count(log[p], "401") = 2 =>
          /\ pc[p] = "done"
          /\ result[p] = "none"
          /\ After401(log[p]) = <<"POST", "GET", "401">>

\* Number of steps a request can still take inside get_soil_properties.
StepsLeft(p) ==
    LET base == CASE pc[p] = "idle" -> 7
                  [] pc[p] = "check_token" -> 6
                  [] pc[p] = "auth_post" -> 5
                  [] pc[p] = "auth_store" -> 4
                  [] pc[p] = "auth_test" -> 3
                  [] pc[p] = "build_hdr" -> 2
                  [] pc[p] = "rebuild_hdr" -> 2
                  [] pc[p] = "get" -> 1
                  [] pc[p] = "retry_get" -> 1
                  [] OTHER -> 0
    IN  IF pc[p] \in {"idle", "check_token", "build_hdr", "get"}
           \/ (pc[p] \in {"auth_post", "auth_store", "auth_test"} /\ ~in401[p])
          THEN base + 5
          ELSE base

\* C1: within one get_soil_properties request, whatever the provider answers,
\* a 401 is followed by exactly one re-authentication and at most one retry
\* GET; a 401 on the retry ends the request with the no-data result and
\* nothing is sent afterwards; no request issues more than two GETs; and the
\* request always terminates: it is never stuck before its end, and each of
\* its steps lowers the number of steps it has left.
C1_RetryOnce ==
    /\ [](\A p \in Procs : C1Safe(p))
    /\ [](\A p \in Procs : pc[p] \notin {"idle", "done"} => ENABLED Step(p))
    /\ [][\A p \in Procs : pc'[p] # pc[p] => StepsLeft(p)' < StepsLeft(p)]_vars

\* C1 witness: a request whose retry was answered 401 again has ended.
C1_Witness ==
    \E p \in Procs : Count(log[p], "401") = 2 /\ pc[p] = "done"

\* Two requests have both received a 401 for their first GET.
TwoIn401 == \E p, q \in Procs : p # q /\ in401[p] /\ in401[q]

\* A stored token that a re-authentication obtained is replaced only by a
\* token issued later.
NoOverwrite ==
    (Truthy(access_token) /\ access_token[2]) =>
        (Truthy(access_token') /\ access_token'[1] >= access_token[1])

\* C10: once two concurrent requests have both received a 401, a token that
\* one of the re-authentications obtained and stored is never overwritten by
\* an absent or older one, and every retry GET (which is only sent after
\* authenticate returned True) carries an issued token.
C10_TokenProtected ==
    /\ [][TwoIn401 => NoOverwrite]_vars
    /\ [](TwoIn401 => \A p \in Procs : pc[p] = "retry_get" => Truthy(hdr[p]))

\* Request p, whose first GET carried a stored token and was answered 401,
\* concludes its re-authentication in this step: authenticate has returned
\* (False: the request ends; True: the retry GET is prepared).
ReauthConcludes(p) ==
    /\ in401[p]
    /\ Truthy(hdr[p])
    /\ pc[p] \in {"auth_post", "auth_store", "auth_test", "rebuild_hdr"}
    /\ pc'[p] \in {"done", "retry_get"}

\* C11: when the re-authentication that follows a 401 concludes, the session
\* holds a newly issued token or no token; the token the provider rejected
\* (the one the first GET carried) is no longer stored, in particular when
\* the re-authentication failed.
C11_RejectedTokenDropped ==
    [][\A p \in Procs : ReauthConcludes(p) => access_token' # hdr[p]]_vars

\* Request p takes a step.
Moves(p) == pc'[p] # pc[p]

\* C19: a request that finds a token stored when it starts goes to its first
\* GET without authenticating; a request authenticates only as its first
\* call (no token was stored) or right after a 401; a request that found a
\* token and received no 401 has sent its GET and nothing else; and no step
\* of a request other than the store of authenticate changes the token.
C19_NoNeedlessAuth ==
    /\ [][\A p \in Procs :
            (pc[p] = "check_token" /\ Moves(p) /\ Truthy(access_token))
               => (pc'[p] = "build_hdr" /\ log'[p] = <<>>)]_vars
    /\ [][\A p \in Procs :
            (Moves(p) /\ pc[p] # "auth_store") => access_token' = access_token]_vars
    /\ [](\A p \in Procs :
            /\ \A i \in DOMAIN log[p] :
                  log[p][i] = "POST" => (i = 1 \/ log[p][i - 1] = "401")
            /\ (pc[p] = "done" /\ log[p] # <<>> /\ log[p][1] = "GET"
                   /\ Count(log[p], "401") = 0) => log[p] = <<"GET">>)

\* C19 witness: a request found the token another request had stored, sent
\* one GET and ended with data, the token still stored.
C19_Witness ==
    \E p \in Procs :
        /\ pc[p] = "done"
        /\ log[p] = <<"GET">>
        /\ result[p] = "data"
        /\ Truthy(access_token)

(***************************************************************************)
(* The pure operations called directly                                     *)
(***************************************************************************)
\* The soil session left as constructed.
SoilUnused ==
    /\ username = "farmer"
    /\ password = "secret"
    /\ access_token = None
    /\ issued = 0
    /\ pc = [p \in Procs |-> "idle"]
    /\ in401 = [p \in Procs |-> FALSE]
    /\ rtok = [p \in Procs |-> None]
    /\ hdr = [p \in Procs |-> None]
    /\ log = [p \in Procs |-> <<>>]
    /\ result = [p \in Procs |-> "pending"]

FnInit ==
    /\ SoilUnused
    /\ api_key \in {"", "key"}
    /\ call = NoCall
    /\ PlaceIdle
    /\ CatalogServing

FnNext ==
    \/ CallScore
    \/ CallRecommend
    \/ CallSeasonal
    \/ CallAnalysis
    \/ CallWeather
    \/ CallEnhance

SpecFn == FnInit /\ [][FnNext]_vars

\* The claim's bands, on an optional pH.
ClaimT(temp) ==
    IF temp >= 18 /\ temp <= 27 THEN 20
    ELSE IF temp >= 15 /\ temp <= 30 THEN 10
    ELSE IF temp < 10 \/ temp > 35 THEN -20 ELSE 0

ClaimH(humidity) ==
    IF humidity >= 50 /\ humidity <= 70 THEN 15
    ELSE IF humidity > 90 THEN -10
    ELSE IF humidity < 30 THEN -15 ELSE 0

ClaimP(ph) ==
    IF ph = None THEN 0
    ELSE IF ph[1] >= 60 /\ ph[1] <= 75 THEN 15
    ELSE IF ph[1] < 50 \/ ph[1] > 85 THEN -15 ELSE 0

Clamp(x) == IF x < 0 THEN 0 ELSE IF x > 100 THEN 100 ELSE x

\* The soil pH of a call of the score, None when soil data or the pH is absent.
CallPh == IF call.soil_data = None THEN None
          ELSE PhValue(call.soil_data[1].soil_analysis)

\* C4: calculate_suitability_score is clamp(50 + T + H + P) with the stated
\* bands, P being 0 when the soil pH is absent, for every temperature,
\* humidity and optional soil pH; the result is within [0,100].
C4_ScoreFormula ==
    call.op = "score" =>
        /\ call.out = Clamp(50 + ClaimT(call.temp) + ClaimH(call.humidity)
                               + ClaimP(CallPh))
        /\ call.out >= 0 /\ call.out <= 100

\* Two strings are equal ignoring letter case.
SameLetter(c, d) ==
    \/ c = d
    \/ \E i \in DOMAIN UpperLetters :
          {c, d} = {UpperLetters[i], LowerLetters[i]}

EqIgnoreCase(a, b) ==
    Len(a) = Len(b) /\ \A i \in DOMAIN a : SameLetter(a[i], b[i])

\* The k-th smallest member of a set of indices.
Kth(M, k) == CHOOSE i \in M : Cardinality({j \in M : j <= i}) = k

\* Indices of the catalog crops that the claim says match.
Matching(temp, rain, ph, soil_type) ==
    {i \in DOMAIN load_crops :
        /\ load_crops[i].temperature_range[1] <= temp
        /\ temp <= load_crops[i].temperature_range[2]
        /\ load_crops[i].rainfall_range[1] <= rain
        /\ rain <= load_crops[i].rainfall_range[2]
        /\ load_crops[i].soil_ph_range[1] <= ph
        /\ ph <= load_crops[i].soil_ph_range[2]
        /\ \E k \in DOMAIN load_crops[i].soil_types :
              EqIgnoreCase(soil_type, load_crops[i].soil_types[k])}

\* C5: recommend_crops returns exactly the catalog crops whose three closed
\* ranges contain the values and whose soil types contain the soil type
\* ignoring case, in catalog order and each once.
C5_ExactMatches ==
    call.op = "recommend" =>
        LET M == Matching(call.temp, call.rain, call.ph, call.soil_type)
        IN  /\ Len(call.out) = Cardinality(M)
            /\ \A k \in DOMAIN call.out :
                  call.out[k] = [name |-> load_crops[Kth(M, k)].name,
                                 season |-> load_crops[Kth(M, k)].season,
                                 tips |-> load_crops[Kth(M, k)].tips]

\* C5 witness: a value on a range bound and a soil type in another letter case
\* match, and several crops are returned.
C5_Witness ==
    /\ call.op = "recommend"
    /\ Len(call.out) >= 2
    /\ call.soil_type = <<"L", "O", "A", "M", "Y">>
    /\ call.temp = 24
    /\ \E k \in DOMAIN call.out : call.out[k].name = "Wheat"

\* Indices of the catalog crops of a season, ignoring case.
InSeason(season) ==
    {i \in DOMAIN load_crops : EqIgnoreCase(load_crops[i].season, season)}

\* C8: with a place supplied, get_seasonal_recommendations returns, for every
\* weather outcome, the season's crops in catalog order as it does without
\* a place, and current_conditions is attached only when a weather record
\* was obtained.
C8_SeasonalNeverFails ==
    call.op = "seasonal" =>
        /\ ~Raised(call.out)
        /\ LET M == InSeason(call.season)
           IN  /\ Len(call.out.v.recommendations) = Cardinality(M)
               /\ \A k \in DOMAIN call.out.v.recommendations :
                     call.out.v.recommendations[k] = load_crops[Kth(M, k)]
        /\ call.out.v.recommendations
              = get_seasonal_recommendations(call.season, None, Value(None)).v.recommendations
        /\ ("current_conditions" \in DOMAIN call.out.v
              /\ call.out.v.current_conditions # None)
             => (~Raised(call.weather) /\ call.weather.v # None)

\* C8 witness: a place was supplied, the weather call raised or gave a record
\* without a temperature, and the listing is not empty.
C8_Witness ==
    /\ call.op = "seasonal"
    /\ TruthyStr(call.location)
    /\ call.out.v.recommendations # <<>>
    /\ ~Raised(call.weather) /\ call.weather.v # None
    /\ call.weather.v[1].temp = None

\* The tips the claim gives for a temperature and for a humidity.
ClaimTemperatureTip(temp) ==
    CASE temp > 30 -> <<"High temperature - ensure adequate irrigation">>
      [] temp < 15 -> <<"Cool weather - consider protection for sensitive crops">>
      [] OTHER -> <<>>

ClaimHumidityTip(humidity) ==
    CASE humidity > 80 -> <<"High humidity - monitor for fungal diseases">>
      [] humidity < 40 -> <<"Low humidity - increase irrigation frequency">>
      [] OTHER -> <<>>

\* C18: every enhanced recommendation lists, in this order and nothing else,
\* the crop's base tip, the temperature tip (above 30 or below 15), the
\* humidity tip (above 80 or below 40), and, when soil data is available,
\* the advisory lines of the soil interpretation in their order; and every
\* recommendation of the input is enhanced.
C18_EnhancedTipsOrder ==
    call.op = "enhance" =>
        /\ Len(call.out) = Len(call.recommendations)
        /\ \A k \in DOMAIN call.out :
              /\ \E i \in DOMAIN call.recommendations :
                    /\ call.recommendations[i].name = call.out[k].name
                    /\ call.recommendations[i].tips = call.out[k].tips
              /\ call.out[k].enhanced_tips =
                    <<call.out[k].tips>>
                    \o ClaimTemperatureTip(call.temp)
                    \o ClaimHumidityTip(call.humidity)
                    \o (IF call.soil_data = None THEN <<>>
                        ELSE call.soil_data[1].agricultural_interpretation
                                 .recommendations)

\* C18 witness: a recommendation with a temperature tip, a humidity tip and
\* two soil advisory lines after its base tip.
C18_Witness ==
    /\ call.op = "enhance"
    /\ call.temp > 30
    /\ call.humidity < 40
    /\ call.soil_data # None
    /\ Len(call.out) >= 2
    /\ Len(call.out[1].enhanced_tips) = 5

\* C12: with the key configured, a weather call (current or forecast) whose
\* response is a transport error, a non-success status or a malformed
\* payload returns None and raises nothing; without the key it raises the
\* configuration error, which is not the None result, and sends no request.
C12_WeatherErrorsContained ==
    call.op = "weather" =>
        /\ api_key # "" =>
              /\ ~Raised(call.out)
              /\ call.response.kind \in WeatherFailures => call.out = Value(None)
              /\ call.response.kind = "ok" => call.out.v # None
        /\ api_key = "" =>
              /\ call.out = Raise("ValueError")
              /\ call.out # Value(None)
              /\ call.sent = 0

\* C12 witness: a configured forecast call read a payload of unexpected shape
\* and returned None.
C12_Witness ==
    /\ call.op = "weather"
    /\ call.fn = "get_forecast"
    /\ api_key # ""
    /\ call.response.kind = "malformed"
    /\ call.sent = 1
    /\ call.out = Value(None)

(***************************************************************************)
(* One place request, served by one thread on a fresh process              *)
(***************************************************************************)
PlaceInit ==
    /\ SoilInit
    /\ api_key \in {"", "key"}
    /\ call = NoCall
    /\ PlaceIdle
    /\ CatalogServing

PlaceNext ==
    \/ \E args \in PlaceArgs : PlaceCall(args)
    \/ \E response \in PlaceWeatherResponses : PlaceWeather(response)
    \/ Step(PlaceProc)
    \/ \E answer \in AnswersFor(result[PlaceProc]) : PlaceSoil(answer)

SpecPlace == PlaceInit /\ [][PlaceNext]_vars

\* A weather record was obtained by the place request.
WeatherObtained == pweather.kind = "value" /\ pweather.v # None

\* The weather call of the place request gave no record: None, or it raised.
WeatherFailed ==
    \/ pweather.kind = "exception"
    \/ pweather.kind = "value" /\ pweather.v = None

ErrorResult(r) ==
    /\ DOMAIN r = {"error", "recommendations", "weather", "soil"}
    /\ r.recommendations = <<>>
    /\ r.weather = None
    /\ r.soil = None

SuccessResult(r) ==
    /\ DOMAIN r = {"location", "recommendations", "weather", "soil", "data_sources"}
    /\ r.weather # None
    /\ r.soil # None

\* C2: without soil credentials and with weather available (temperature and
\* humidity present), the soil analysis yields no data instead of failing and
\* the place request returns a non-error result with soil ph 6.5, soil type
\* "loamy" and analysis_available false.
C2_WeatherOnlyWithoutCredentials ==
    (/\ ppc = "done"
     /\ ~CredentialsConfigured
     /\ WeatherObtained
     /\ pweather.v[1].temp # None
     /\ pweather.v[1].humidity # None)
    => /\ result[PlaceProc] # "raised"
       /\ SuccessResult(presult)
       /\ presult.soil = Some([ph |-> 65, type |-> Loamy,
                               analysis_available |-> FALSE])

\* C3: when the weather call gives no record, the place request ends with the
\* error result (recommendations empty, weather and soil null), and the soil
\* provider is not called in that request: get_soil_properties is entered
\* only once a weather record was obtained.
C3_WeatherMandatory ==
    /\ (ppc = "done" /\ WeatherFailed) =>
          /\ ErrorResult(presult)
          /\ pc[PlaceProc] = "idle"
          /\ log[PlaceProc] = <<>>
    /\ (pc[PlaceProc] # "idle" \/ log[PlaceProc] # <<>>) => WeatherObtained

\* C3 witness: a configured weather client gave no data and the request ended.
C3_Witness ==
    /\ ppc = "done"
    /\ api_key # ""
    /\ pweather.kind = "value" /\ pweather.v = None
    /\ "error" \in DOMAIN presult

\* Coordinates are resolvable for the place request: the caller supplied
\* both, or the weather record echoes both (0 is a coordinate).
CoordinatesResolvable ==
    \/ pargs.lat # None /\ pargs.lon # None
    \/ pweather.v[1].lat # None /\ pweather.v[1].lon # None

\* C13: once the place request has its weather record, the soil analysis is
\* attempted (get_soil_properties is entered, once) exactly when coordinates
\* are resolvable from the caller's arguments or from the weather record,
\* a latitude or longitude of 0 included.
C13_AnalysisWhenResolvable ==
    (ppc \in {"soil", "done"} /\ WeatherObtained) =>
        /\ CoordinatesResolvable <=> pc[PlaceProc] # "idle"
        /\ Count(log[PlaceProc], "GET") <= 2

\* The rainfall the claim gives for a humidity.
ClaimRainfall(h) ==
    CASE h >= 80 -> 800
      [] h >= 60 /\ h < 80 -> 600
      [] h >= 40 /\ h < 60 -> 400
      [] h < 40 -> 300

\* C16: a place request that ends with a result reports as estimated_rainfall
\* the step function of the weather record's humidity (>= 80: 800, 60..79:
\* 600, 40..59: 400, below 40: 300), and its recommendations are the catalog
\* crops matching with that value as the rainfall.
C16_RainfallStep ==
    (ppc = "done" /\ SuccessResult(presult)) =>
        LET rain == ClaimRainfall(pweather.v[1].humidity[1])
        IN  /\ presult.weather[1].estimated_rainfall = rain
            /\ presult.weather[1].temperature # None =>
                  {presult.recommendations[k].name :
                       k \in DOMAIN presult.recommendations}
                    = {load_crops[i].name :
                         i \in Matching(presult.weather[1].temperature[1], rain,
                                        presult.soil[1].ph, presult.soil[1].type)}

\* C16 witness: a humidity on a threshold (60) gave 600 and crops matched.
C16_Witness ==
    /\ ppc = "done"
    /\ SuccessResult(presult)
    /\ pweather.v[1].humidity = Some(60)
    /\ presult.weather[1].estimated_rainfall = 600
    /\ presult.recommendations # <<>>

\* The place request obtained a soil analysis.
AnalysisObtained == psoil.kind = "value" /\ psoil.v # None

\* The analysis holds numbers for both sand and clay.
NumericTexture(analysis) ==
    /\ analysis.soil_analysis.sand.present
    /\ analysis.soil_analysis.sand.value # None
    /\ analysis.soil_analysis.clay.present
    /\ analysis.soil_analysis.clay.value # None

\* The claim's classification and the soil type it maps to.
ClaimTexture(sand, clay) ==
    IF sand > 70 THEN <<"Sandy", Sandy>>
    ELSE IF clay > 40 THEN <<"Clay", Clay>>
    ELSE <<"Loamy", Loamy>>

\* C17: for a soil analysis with sand and clay percentages, the texture label
\* is "Sandy" when sand > 70 (whatever the clay), else "Clay" when clay > 40,
\* else "Loamy", and a place result reports the soil type sandy, clay or
\* loamy of that label.
C17_TexturePriority ==
    (ppc = "done" /\ AnalysisObtained /\ NumericTexture(psoil.v[1])) =>
        LET texture == ClaimTexture(psoil.v[1].soil_analysis.sand.value[1],
                                    psoil.v[1].soil_analysis.clay.value[1])
        IN  /\ psoil.v[1].agricultural_interpretation.soil_type = texture[1]
            /\ SuccessResult(presult) => presult.soil[1].type = texture[2]

\* C17 witness: sand above 70 and clay above 40 together gave sandy.
C17_Witness ==
    /\ ppc = "done"
    /\ AnalysisObtained
    /\ psoil.v[1].soil_analysis.sand.value = Some(80)
    /\ psoil.v[1].soil_analysis.clay.value = Some(50)
    /\ SuccessResult(presult)
    /\ presult.soil[1].type = Sandy

\* C20: in a place result all recommendations carry one suitability_score,
\* the score of the request's weather and soil records, and they are listed
\* in the catalog order of the matching crops.
C20_UniformScore ==
    (ppc = "done" /\ SuccessResult(presult)
       /\ presult.weather[1].temperature # None) =>
        LET recs == presult.recommendations
            M == Matching(presult.weather[1].temperature[1],
                          presult.weather[1].estimated_rainfall,
                          presult.soil[1].ph, presult.soil[1].type)
        IN  /\ \A i, j \in DOMAIN recs :
                  recs[i].suitability_score = recs[j].suitability_score
            /\ Len(recs) = Cardinality(M)
            /\ \A k \in DOMAIN recs : recs[k].name = load_crops[Kth(M, k)].name

\* C20 witness: a result built with a soil analysis lists several crops.
C20_Witness ==
    /\ ppc = "done"
    /\ SuccessResult(presult)
    /\ AnalysisObtained
    /\ Len(presult.recommendations) >= 2
    /\ presult.recommendations[1].suitability_score = 100

\* Place of a crop name in the catalog.
CatalogIndex(name) == CHOOSE i \in DOMAIN load_crops : load_crops[i].name = name

\* C6: the returned recommendations are a permutation of the matched crops,
\* ordered by suitability_score descending, equal scores in catalog order.
C6_RankedStable ==
    (ppc = "done" /\ SuccessResult(presult)
       /\ presult.weather[1].temperature # None) =>
        LET recs == presult.recommendations
            M == Matching(presult.weather[1].temperature[1],
                          presult.weather[1].estimated_rainfall,
                          presult.soil[1].ph, presult.soil[1].type)
        IN  /\ Len(recs) = Cardinality(M)
            /\ {recs[k].name : k \in DOMAIN recs} = {load_crops[i].name : i \in M}
            /\ \A i, j \in DOMAIN recs :
                  i < j =>
                    /\ recs[i].suitability_score >= recs[j].suitability_score
                    /\ recs[i].suitability_score = recs[j].suitability_score
                         => CatalogIndex(recs[i].name) < CatalogIndex(recs[j].name)

\* C6 witness: a result that ranks several crops.
C6_Witness ==
    /\ ppc = "done"
    /\ SuccessResult(presult)
    /\ Len(presult.recommendations) >= 3

\* C9: the place request ends, for every weather and soil outcome, with an
\* error result or a success result; no exception reaches the caller.
C9_NoFailureEscapes ==
    ppc = "done" => ErrorResult(presult) \/ SuccessResult(presult)

\* C9 witness: the request ended although the soil analysis could not
\* interpret the provider's answer.
C9_Witness ==
    /\ ppc = "done"
    /\ result[PlaceProc] = "data"
    /\ WeatherObtained
    /\ pweather.v[1].temp # None /\ pweather.v[1].humidity # None
    /\ ErrorResult(presult)

\* A property is missing from the answer: no entry, or a null value.
Missing(entry) == entry.shape # "dict" \/ entry.value = None

\* C7: for every set of properties in the provider's answer, nulls included,
\* the interpretation is produced; a field whose properties are missing is
\* "Unknown" (the soil type when sand and clay are both missing), and the
\* advisory holds no line for a missing property.
C7_PartialDataInterpreted ==
    call.op = "analysis" =>
        /\ ~Raised(call.out)
        /\ LET i == call.out.v[1].agricultural_interpretation
           IN  /\ Missing(call.answer.ph) => i.ph_status = "Unknown"
               /\ Missing(call.answer.soc) => i.organic_matter = "Unknown"
               /\ (Missing(call.answer.sand) /\ Missing(call.answer.clay))
                     => i.soil_type = "Unknown"
               /\ Missing(call.answer.ph) =>
                     \A k \in DOMAIN i.recommendations :
                        i.recommendations[k] \notin
                           {"Consider soil liming to increase pH",
                            "Monitor nutrient availability in alkaline conditions"}
               /\ Missing(call.answer.soc) =>
                     \A k \in DOMAIN i.recommendations :
                        i.recommendations[k]
                           # "Add compost or organic matter to improve soil health"

(***************************************************************************)
(* The server process: import of main.py, then requests answered from the  *)
(* catalog document.                                                       *)
(***************************************************************************)
\* Number of reads of the catalog document after which no request is taken.
MaxReads == 3

\* The record c with the key f left out.
WithoutField(c, f) == [g \in DOMAIN c \ {f} |-> c[g]]

\* Ways a record can break the catalog schema.
BreakKinds == {"no_tips", "no_season", "reversed_range", "short_range"}

\* The catalog record c broken in the way `how`.
Broken(c, how) ==
    CASE how = "no_tips" -> WithoutField(c, "tips")
      [] how = "no_season" -> WithoutField(c, "season")
      [] how = "reversed_range" ->
            [c EXCEPT !.temperature_range = <<c.temperature_range[2],
                                              c.temperature_range[1]>>]
      [] OTHER -> [c EXCEPT !.rainfall_range = <<c.rainfall_range[1]>>]

\* Documents the deployment can hold: the catalog, a file that is not JSON,
\* and the catalog with its first or last record broken.
Documents ==
    {CatalogName, <<"not_json", 0, "">>}
    \cup {<<"broken", k, how>> : k \in {1, Len(load_crops)}, how \in BreakKinds}

\* No document: chatbot.py has not been imported.
NotLoaded == <<"none", 0, "">>

\* The content of a named document.
DocumentOf(name) ==
    CASE name[1] = "catalog" -> GoodDocument
      [] name[1] = "broken" ->
            [wellformed |-> TRUE,
             records |-> [load_crops EXCEPT
                             ![name[2]] = Broken(load_crops[name[2]], name[3])]]
      [] OTHER -> [wellformed |-> FALSE, records |-> <<>>]

\* The list `crops` of chatbot.py.
ChatbotCrops == DocumentOf(chatbot_crops).records

\* main.py 1-6: the imports.  recommender.py defines load_crops without
\* calling it; chatbot.py 7-8 reads the document with json.load.
Startup ==
    /\ process = "booting"
    /\ LET loaded == ChatbotLoad(DocumentOf(crops_json))
       IN  IF Raised(loaded)
             THEN process' = "failed" /\ UNCHANGED chatbot_crops
             ELSE process' = "up" /\ chatbot_crops' = crops_json
    /\ reads' = reads + 1
    /\ UNCHANGED <<soilVars, api_key, call, placeVars, crops_json>>

ServeTemps == {17, 22}

ServeSoilTypes == {Loamy, Sandy}

\* GET /recommend (main.py 12-20): recommend_crops loads the document
\* (recommender.py 15) and filters it.
ServeRecommend(temp, soil_type) ==
    /\ process = "up"
    /\ reads < MaxReads
    /\ LET crops == LoadCrops(DocumentOf(crops_json))
       IN  call' = [op |-> "GET /recommend", temp |-> temp,
                    soil_type |-> soil_type,
                    out |-> IF Raised(crops) THEN crops
                            ELSE Value(RecommendLoop(crops.v, 1, <<>>, temp,
                                                     600, 65, soil_type))]
    /\ reads' = reads + 1
    /\ UNCHANGED <<soilVars, api_key, placeVars, crops_json, chatbot_crops,
                   process>>

\* main.py 52
ValidSeasons == {Spring, Summer, Autumn, Winter}

\* GET /recommend/seasonal without a location (main.py 44-60, recommender.py
\* 238-266): a season outside the four is refused before the catalog is read.
ServeSeasonal(season) ==
    /\ process = "up"
    /\ reads < MaxReads
    /\ IF Lower(season) \notin ValidSeasons
         THEN /\ call' = [op |-> "GET /recommend/seasonal", season |-> season,
                          out |-> Raise("HTTPException")]
              /\ UNCHANGED reads
         ELSE /\ LET crops == LoadCrops(DocumentOf(crops_json))
                 IN  call' = [op |-> "GET /recommend/seasonal",
                              season |-> season,
                              out |-> IF Raised(crops) THEN crops
                                      ELSE Value(SelectSeq(crops.v,
                                              LAMBDA c : Lower(c.season)
                                                            = Lower(season)))]
              /\ reads' = reads + 1
    /\ UNCHANGED <<soilVars, api_key, placeVars, crops_json, chatbot_crops,
                   process>>

\* chatbot.py 33-35: the names of the summer crops of the loaded list.
ChatSummer(crops) ==
    IF \E i \in DOMAIN crops : "season" \notin DOMAIN crops[i]
      THEN Raise("KeyError")
    ELSE LET matches == SelectSeq(crops, LAMBDA c : Lower(c.season) = Summer)
         IN  IF \E i \in DOMAIN matches : "name" \notin DOMAIN matches[i]
               THEN Raise("KeyError")
               ELSE Value([i \in DOMAIN matches |-> matches[i].name])

\* chatbot.py 38-49: the first crop of the loaded list that the message
\* names, from record i on.
RECURSIVE ChatCrop(_, _, _)
ChatCrop(crops, i, mentions) ==
    IF i > Len(crops) THEN Value("Sorry, I couldn't understand that")
    ELSE IF "name" \notin DOMAIN crops[i] THEN Raise("KeyError")
    ELSE IF crops[i].name \in mentions
      THEN IF {"soil_types", "soil_ph_range"} \subseteq DOMAIN crops[i]
             THEN Value([name |-> crops[i].name,
                         soil_types |-> crops[i].soil_types,
                         soil_ph_range |-> crops[i].soil_ph_range])
             ELSE Raise("KeyError")
    ELSE ChatCrop(crops, i + 1, mentions)

\* Messages without a weather, city, soil or soil-type keyword: whether they
\* hold "summer", and the crop names they hold.
ChatMessages ==
    {[summer |-> TRUE, mentions |-> {}],
     [summer |-> FALSE, mentions |-> {"Wheat"}],
     [summer |-> FALSE, mentions |-> {"Sorghum", "Maize"}],
     [summer |-> FALSE, mentions |-> {}]}

\* POST /chat (main.py 62-66, chatbot.py 13-49), answered from the list that
\* chatbot.py loaded at import.
ServeChat(message) ==
    /\ process = "up"
    /\ call' = [op |-> "POST /chat", message |-> message,
                out |-> IF message.summer THEN ChatSummer(ChatbotCrops)
                        ELSE ChatCrop(ChatbotCrops, 1, message.mentions)]
    /\ UNCHANGED <<soilVars, api_key, placeVars, catalogVars>>

\* A deployment before the import of main.py.
CatalogInit ==
    /\ SoilUnused
    /\ api_key = "key"
    /\ call = NoCall
    /\ PlaceIdle
    /\ crops_json \in Documents
    /\ chatbot_crops = NotLoaded
    /\ process = "booting"
    /\ reads = 0

CatalogNext ==
    \/ Startup
    \/ \E temp \in ServeTemps, soil_type \in ServeSoilTypes :
          ServeRecommend(temp, soil_type)
    \/ \E season \in Seasons : ServeSeasonal(season)
    \/ \E message \in ChatMessages : ServeChat(message)

SpecCatalog == CatalogInit /\ [][CatalogNext]_vars

\* A range whose ends are not a pair min <= max.
MalformedRange(range) == Len(range) # 2 \/ range[1] > range[2]

\* The document breaks the catalog schema: a record lacks a required field
\* or holds a malformed range.
SchemaViolation(doc) ==
    /\ doc.wellformed
    /\ \E i \in DOMAIN doc.records :
          \/ ~(CropFields \subseteq DOMAIN doc.records[i])
          \/ \E f \in {"temperature_range", "rainfall_range", "soil_ph_range"}
                        \cap DOMAIN doc.records[i] :
                MalformedRange(doc.records[i][f])

\* C14: the catalog document is read once, at process start, and not again:
\* whatever requests the running server has answered from a catalog that
\* keeps the schema, the document has been read exactly once.
C14_CatalogReadOnce ==
    (process = "up" /\ ~SchemaViolation(DocumentOf(crops_json))) => reads = 1

\* C15: with a catalog document that breaks the schema the process does not
\* come up, and no request is answered from that document.
C15_SchemaViolationFailsStartup ==
    SchemaViolation(DocumentOf(crops_json)) => process # "up" /\ call = NoCall

====
